---- MODULE Spec2Model ----
(***************************************************************************)
(* Model of geometry_scanner.ipynb: a notebook that builds a Gaussian      *)
(* optimization deck, runs the engine, extracts the converged Z-matrix,    *)
(* builds and edits a scan deck, runs the engine again and extracts a      *)
(* trajectory file and an energy file from the scan log.                   *)
(*                                                                         *)
(* Conventions of the model                                                *)
(*  - a text line is a TLA+ string holding the line without its newline;   *)
(*    a file is a sequence of lines; every line is newline-terminated.     *)
(*  - a Python float is an exact rational [n, d] in lowest terms, d > 0    *)
(*    (binary rounding of IEEE doubles is not modelled).                   *)
(*  - a Python value that may be None is a sequence of length 0 or 1.      *)
(*  - the notebook is run with "Run all": a cell that raises stops the     *)
(*    run; a cell may also be entered on its own with the state its        *)
(*    predecessors leave (the per-function specifications).                *)
(***************************************************************************)
EXTENDS Integers, Sequences, FiniteSets, TLC

(***************************************************************************)
(* Python str primitives                                                   *)
(***************************************************************************)
Ch(s, i) == SubSeq(s, i, i)

Whitespace == {" ", "\t"}
Digits == {"0", "1", "2", "3", "4", "5", "6", "7", "8", "9"}

IsSpace(c) == c \in Whitespace

IsDigit(c) == c \in Digits

RECURSIVE lstrip(_)
lstrip(s) == IF s # "" /\ IsSpace(Ch(s, 1)) THEN lstrip(Tail(s)) ELSE s

RECURSIVE rstrip(_)
rstrip(s) ==
    IF s # "" /\ IsSpace(Ch(s, Len(s))) THEN rstrip(SubSeq(s, 1, Len(s) - 1)) ELSE s

strip(s) == rstrip(lstrip(s))

startswith(s, prefix) ==
    Len(s) >= Len(prefix) /\ SubSeq(s, 1, Len(prefix)) = prefix

\* the Python operator: sub in s
contains(s, sub) ==
    \E i \in 1..(Len(s) - Len(sub) + 1) : SubSeq(s, i, i + Len(sub) - 1) = sub

\* length of the leading run of non-blank characters of s
RECURSIVE TokenLen(_)
TokenLen(s) == IF s = "" \/ IsSpace(Ch(s, 1)) THEN 0 ELSE 1 + TokenLen(Tail(s))

\* str.split() with no argument: the whitespace-separated tokens
RECURSIVE split(_)
split(s) ==
    LET t == lstrip(s)
    IN  IF t = "" THEN <<>>
        ELSE LET k == TokenLen(t)
             IN  <<SubSeq(t, 1, k)>> \o split(SubSeq(t, k + 1, Len(t)))

\* str.replace(old, new) for a one-character old
RECURSIVE replace(_, _, _)
replace(s, old, new) ==
    IF s = "" THEN ""
    ELSE (IF Ch(s, 1) = old THEN new ELSE Ch(s, 1)) \o replace(Tail(s), old, new)

(***************************************************************************)
(* Numbers: exact rationals, decimal parsing and rendering                 *)
(***************************************************************************)
Abs(x) == IF x < 0 THEN -x ELSE x

RECURSIVE GCD(_, _)
GCD(a, b) == IF b = 0 THEN a ELSE GCD(b, a % b)

Rat(n, d) ==
    LET g == GCD(Abs(n), Abs(d))
        sg == IF d < 0 THEN -1 ELSE 1
    IN  [n |-> sg * (n \div g), d |-> sg * (d \div g)]

\* the operations cancel common factors before they multiply, so that the
\* intermediate values stay within machine integers
RatMul(a, b) ==
    LET g1 == GCD(Abs(a.n), b.d)
        g2 == GCD(Abs(b.n), a.d)
    IN  Rat((a.n \div g1) * (b.n \div g2), (a.d \div g2) * (b.d \div g1))
RatAdd(a, b) ==
    LET l == (a.d \div GCD(a.d, b.d)) * b.d
    IN  Rat(a.n * (l \div a.d) + b.n * (l \div b.d), l)
RatNeg(a) == [n |-> -a.n, d |-> a.d]
RatSub(a, b) == RatAdd(a, RatNeg(b))
RatMulInt(a, k) ==
    LET g == GCD(Abs(k), a.d)
    IN  Rat(a.n * (k \div g), a.d \div g)
\* k # 0
RatDivInt(a, k) ==
    LET g == GCD(Abs(k), Abs(a.n))
    IN  Rat(a.n \div g, a.d * (k \div g))
RatLeqZero(a) == a.n <= 0
RatLeq(a, b) == RatSub(a, b).n <= 0

RECURSIVE Pow10(_)
Pow10(k) == IF k = 0 THEN 1 ELSE 10 * Pow10(k - 1)

DigitVal(c) ==
    CASE c = "0" -> 0 [] c = "1" -> 1 [] c = "2" -> 2 [] c = "3" -> 3 [] c = "4" -> 4
      [] c = "5" -> 5 [] c = "6" -> 6 [] c = "7" -> 7 [] c = "8" -> 8 [] c = "9" -> 9

DigitChar(k) == Ch("0123456789", k + 1)

AllDigits(s) == \A i \in 1..Len(s) : IsDigit(Ch(s, i))

RECURSIVE DigitsVal(_)
DigitsVal(s) ==
    IF s = "" THEN 0 ELSE 10 * DigitsVal(SubSeq(s, 1, Len(s) - 1)) + DigitVal(Ch(s, Len(s)))

RECURSIVE IntStr(_)
IntStr(k) == IF k < 10 THEN DigitChar(k) ELSE IntStr(k \div 10) \o DigitChar(k % 10)

\* str(k) of a Python int
str_int(k) == IF k < 0 THEN "-" \o IntStr(-k) ELSE IntStr(k)

\* the positions of character c in s
Positions(s, c) == {i \in 1..Len(s) : Ch(s, i) = c}

Min(S) == CHOOSE x \in S : \A y \in S : x <= y
Max(S) == CHOOSE x \in S : \A y \in S : x >= y

\* an unsigned decimal mantissa: digits with at most one point, one digit at least
IsMantissa(s) ==
    LET dots == Positions(s, ".")
    IN  /\ Cardinality(dots) <= 1
        /\ \A i \in 1..Len(s) : IsDigit(Ch(s, i)) \/ Ch(s, i) = "."
        /\ \E i \in 1..Len(s) : IsDigit(Ch(s, i))

MantissaVal(s) ==
    LET dots == Positions(s, ".")
    IN  IF dots = {} THEN Rat(DigitsVal(s), 1)
        ELSE LET p == Min(dots)
                 whole == SubSeq(s, 1, p - 1)
                 frac == SubSeq(s, p + 1, Len(s))
             IN  Rat(DigitsVal(whole \o frac), Pow10(Len(frac)))

HasSign(s) == s # "" /\ Ch(s, 1) \in {"+", "-"}
Unsigned(s) == IF HasSign(s) THEN Tail(s) ELSE s
SignOf(s) == IF s # "" /\ Ch(s, 1) = "-" THEN -1 ELSE 1

\* the exponent part of a float literal: [+-]?digits
IsExponent(s) == Unsigned(s) # "" /\ AllDigits(Unsigned(s))
ExponentVal(s) == SignOf(s) * DigitsVal(Unsigned(s))

Scale10(r, e) == IF e >= 0 THEN RatMulInt(r, Pow10(e)) ELSE RatDivInt(r, Pow10(-e))

\* float(s) for the decimal literals [+-]digits[.digits][E[+-]digits];
\* <<>> stands for ValueError, <<r>> for the value r
float(text) ==
    LET s == strip(text)
        u == Unsigned(s)
        es == Positions(u, "E") \cup Positions(u, "e")
    IN  IF es = {}
        THEN IF IsMantissa(u) THEN <<RatMulInt(MantissaVal(u), SignOf(s))>> ELSE <<>>
        ELSE LET p == Min(es)
                 m == SubSeq(u, 1, p - 1)
                 x == SubSeq(u, p + 1, Len(u))
             IN  IF IsMantissa(m) /\ IsExponent(x)
                 THEN <<Scale10(RatMulInt(MantissaVal(m), SignOf(s)), ExponentVal(x))>>
                 ELSE <<>>

\* one step of long division without forming 10 * r: after k additions of r,
\* <<digit, remainder>> of (10 * r) / d
RECURSIVE LongDivStep(_, _, _, _, _)
LongDivStep(acc, r, d, k, digit) ==
    IF k = 0 THEN <<digit, acc>>
    ELSE IF acc + r >= d THEN LongDivStep(acc + r - d, r, d, k - 1, digit + 1)
         ELSE LongDivStep(acc + r, r, d, k - 1, digit)

\* the first k fractional digits of r / d (0 <= r < d) and the remainder left
RECURSIVE FracDigits(_, _, _)
FracDigits(r, d, k) ==
    IF k = 0 THEN [digits |-> "", rem |-> r]
    ELSE LET st == LongDivStep(0, r, d, 10, 0)
             rest == FracDigits(st[2], d, k - 1)
         IN  [digits |-> DigitChar(st[1]) \o rest.digits, rem |-> rest.rem]

\* s + 1 for a string of decimal digits (the carry of rounding up)
RECURSIVE IncDigits(_)
IncDigits(s) ==
    IF s = "" THEN "1"
    ELSE IF Ch(s, Len(s)) = "9" THEN IncDigits(SubSeq(s, 1, Len(s) - 1)) \o "0"
         ELSE SubSeq(s, 1, Len(s) - 1) \o DigitChar(DigitVal(Ch(s, Len(s))) + 1)

\* format(x, ".<places>f"): x rounded to the nearest, ties to even
FormatFixed(x, places) ==
    LET a == Abs(x.n)
        whole == IntStr(a \div x.d)
        fd == FracDigits(a % x.d, x.d, places)
        all == whole \o fd.digits
        twice == fd.rem + fd.rem
        last == DigitVal(Ch(all, Len(all)))
        up == twice > x.d \/ (twice = x.d /\ last % 2 = 1)
        rounded == IF up THEN IncDigits(all) ELSE all
        w == Len(rounded) - places
        body == SubSeq(rounded, 1, w) \o "." \o SubSeq(rounded, w + 1, Len(rounded))
    IN  (IF x.n < 0 THEN "-" ELSE "") \o body

\* the fractional digits of r / d to the last non-zero one, k at most
RECURSIVE ExactFrac(_, _, _)
ExactFrac(r, d, k) ==
    IF r = 0 \/ k = 0 THEN ""
    ELSE LET st == LongDivStep(0, r, d, 10, 0)
         IN  DigitChar(st[1]) \o ExactFrac(st[2], d, k - 1)

\* repr(x) of a float, as str.format renders "{x}": the shortest decimal that
\* reads back as x, 17 significant digits at most; a finite decimal is written
\* out, with ".0" for a whole number (the exponent form repr uses below 1e-4
\* and from 1e16 on is left out: the distances of a scan are not that small)
repr(x) ==
    LET a == Abs(x.n)
        frac == ExactFrac(a % x.d, x.d, 17)
    IN  (IF x.n < 0 THEN "-" ELSE "") \o IntStr(a \div x.d) \o "."
            \o (IF frac = "" THEN "0" ELSE frac)

(***************************************************************************)
(* User input (notebook cell 1)                                            *)
(***************************************************************************)
molecule_name == "h3f"
memory == "25"
n_cpus == "6"
method == "ump2(full)"
title_card == "Basis Set from basissetexchange.org:  Zr: cc-pVTZ-PP   F, H: cc-pVTZ"
geom_file == "geom.gjf"
basisset_file == "basis-set.info"

(***************************************************************************)
(* Lines and files                                                         *)
(***************************************************************************)
IsBlank(line) == strip(line) = ""

\* every sequence over S of length n at most
SeqsUpTo(S, n) == UNION {[1..k -> S] : k \in 0..n}

(***************************************************************************)
(* Pre-run check of scan_bond on the geometry file                         *)
(***************************************************************************)
\* the for/else of the cell: TRUE when the loop breaks, FALSE when it raises
PreRunAccepts(lines, scan_bond) ==
    \E i \in 1..Len(lines) :
        /\ startswith(strip(lines[i]), scan_bond \o " ")
        /\ Len(split(lines[i])) = 2

(***************************************************************************)
(* validate_parameters                                                     *)
(***************************************************************************)
\* "ok" or the message of the ValueError raised
validate_parameters(lower_bound, upper_bound, scan_step_number) ==
    IF RatLeqZero(lower_bound) THEN "lower_bound must be positive"
    ELSE IF RatLeqZero(upper_bound) THEN "upper_bound must be positive"
    ELSE IF RatLeq(upper_bound, lower_bound)
         THEN "upper_bound must be larger than lower_bound"
    ELSE IF scan_step_number <= 0 THEN "scan_step_number must be a positive integer"
    ELSE "ok"

(***************************************************************************)
(* Headers of the two decks                                                *)
(***************************************************************************)
HeaderWith(route) ==
    << "%chk=" \o molecule_name \o ".chk",
       "%mem=" \o memory \o "GB",
       "%nprocshared=" \o n_cpus,
       route,
       "",
       title_card,
       "" >>

opt_header ==
    HeaderWith("# " \o method
        \o "/gen pseudo=read guess=mix scf=(maxcycle=500, yqc, tight) OPT(maxcycles=1000)")

scan_header ==
    HeaderWith("# scan " \o method
        \o "/gen pseudo=read guess=mix scf=(maxcycle=500, yqc, tight)")

(***************************************************************************)
(* read_geometry_block                                                     *)
(***************************************************************************)
\* index is the 0-based Python index; lines[index + 1] is lines[index] there
RECURSIVE SkipInitialEmpty(_, _)
SkipInitialEmpty(lines, index) ==
    IF index < Len(lines) /\ IsBlank(lines[index + 1])
    THEN SkipInitialEmpty(lines, index + 1)
    ELSE index

SkipFirstNonEmpty(lines, index) == IF index < Len(lines) THEN index + 1 ELSE index

RECURSIVE SkipTwoEmpty(_, _, _)
SkipTwoEmpty(lines, index, empty_line_count) ==
    IF index < Len(lines) /\ empty_line_count < 2
    THEN SkipTwoEmpty(lines, index + 1,
                      IF IsBlank(lines[index + 1]) THEN empty_line_count + 1
                      ELSE empty_line_count)
    ELSE index

RECURSIVE ReadBlock(_, _, _, _)
ReadBlock(lines, index, empty_line_count, geometry_block) ==
    IF index < Len(lines) /\ empty_line_count < 2
    THEN ReadBlock(lines, index + 1,
                   IF IsBlank(lines[index + 1]) THEN empty_line_count + 1
                   ELSE empty_line_count,
                   Append(geometry_block, lines[index + 1]))
    ELSE geometry_block

RECURSIVE StripTrailingEmpty(_)
StripTrailingEmpty(block) ==
    IF block # <<>> /\ IsBlank(block[Len(block)])
    THEN StripTrailingEmpty(SubSeq(block, 1, Len(block) - 1))
    ELSE block

\* the block read up to two consecutive blank lines: the count starts again
\* at every line that is not blank
RECURSIVE ReadBlock_Consecutive(_, _, _, _)
ReadBlock_Consecutive(lines, index, empty_line_count, geometry_block) ==
    IF index < Len(lines) /\ empty_line_count < 2
    THEN ReadBlock_Consecutive(lines, index + 1,
                   IF IsBlank(lines[index + 1]) THEN empty_line_count + 1 ELSE 0,
                   Append(geometry_block, lines[index + 1]))
    ELSE geometry_block

read_geometry_block_Consecutive(lines) ==
    LET i1 == SkipInitialEmpty(lines, 0)
        i2 == SkipFirstNonEmpty(lines, i1)
        i3 == SkipTwoEmpty(lines, i2, 0)
    IN  StripTrailingEmpty(ReadBlock_Consecutive(lines, i3, 0, <<>>))

read_geometry_block(lines) ==
    LET i1 == SkipInitialEmpty(lines, 0)
        i2 == SkipFirstNonEmpty(lines, i1)
        i3 == SkipTwoEmpty(lines, i2, 0)
    IN  StripTrailingEmpty(ReadBlock(lines, i3, 0, <<>>))

(***************************************************************************)
(* read_basis_set                                                          *)
(***************************************************************************)
RECURSIVE StripLeadingEmpty(_)
StripLeadingEmpty(block) ==
    IF block # <<>> /\ IsBlank(block[1]) THEN StripLeadingEmpty(Tail(block)) ELSE block

\* read_basis_set that leaves the blank lines at the end in place
read_basis_set_KeepsTrailing(lines) ==
    <<"">> \o StripLeadingEmpty(lines) \o <<"">>

read_basis_set(lines) ==
    <<"">> \o StripTrailingEmpty(StripLeadingEmpty(lines)) \o <<"">>

(***************************************************************************)
(* Termination check of an engine log                                      *)
(***************************************************************************)
success_marker == "Normal termination"

\* the check on the last non-empty line instead of the last line
TerminatedNormally_LastNonEmpty(lines) ==
    LET filled == {i \in 1..Len(lines) : strip(lines[i]) # ""}
    IN  filled # {} /\ startswith(strip(lines[Max(filled)]), success_marker)

TerminatedNormally(lines) ==
    lines # <<>> /\ startswith(strip(lines[Len(lines)]), success_marker)

(***************************************************************************)
(* extract_optimized_structure                                             *)
(***************************************************************************)
structure_marker == "Final structure in terms of initial Z-matrix:"

\* the 1-based indices of the lines that contain the marker
StructureLines(lines) == {i \in 1..Len(lines) : contains(lines[i], structure_marker)}

HasStructure(lines) == StructureLines(lines) # {}

\* re.match(r'^\d', line.strip())
StartsWithDigit(line) == strip(line) # "" /\ IsDigit(Ch(strip(line), 1))

ModifiedLine(line) ==
    IF contains(line, "Variables:") THEN ""
    ELSE replace(replace(line, ",", "   "), "=", "   ")

RECURSIVE CopyStructure(_, _)
CopyStructure(lines, index) ==
    IF index >= Len(lines) \/ StartsWithDigit(lines[index + 1]) THEN <<>>
    ELSE <<ModifiedLine(lines[index + 1])>> \o CopyStructure(lines, index + 1)

\* defined when HasStructure(lines); otherwise the function raises RuntimeError
extract_optimized_structure(lines) ==
    LET start_index == Min(StructureLines(lines))
    IN  CopyStructure(lines, start_index)

(***************************************************************************)
(* update_scan_bond                                                        *)
(***************************************************************************)
\* the test of the loop body: the line is rewritten when both hold
IsScanLine(line, scan_bond) ==
    startswith(strip(line), scan_bond) /\ Len(split(line)) = 2

ScanDirective(scan_bond, minimum, scan_step_number, step) ==
    " " \o scan_bond \o "   " \o FormatFixed(minimum, 8) \o "   "
        \o str_int(scan_step_number) \o "   " \o repr(step)

\* update_scan_bond with the equilibrium distance, not the minimum, left in the
\* shared pair
update_scan_bond_SharesEquilibrium(lines, scan_bond, lower_bound, upper_bound, scan_step_number, min0, step0) ==
    LET hits == {i \in 1..Len(lines) : IsScanLine(lines[i], scan_bond)}
        i == Min(hits)
        parsed == float(split(lines[i])[2])
        minimum == RatMul(parsed[1], lower_bound)
        maximum == RatMul(parsed[1], upper_bound)
    IN  IF hits = {}
        THEN [raised |-> "ValueError: coordinate not found", lines |-> lines,
              minimum_dist |-> min0, step_size |-> step0]
        ELSE IF parsed = <<>>
        THEN [raised |-> "ValueError: float", lines |-> lines,
              minimum_dist |-> min0, step_size |-> step0]
        ELSE IF scan_step_number = 0
        THEN [raised |-> "ZeroDivisionError", lines |-> lines,
              minimum_dist |-> parsed, step_size |-> step0]
        ELSE LET step == RatDivInt(RatSub(maximum, minimum), scan_step_number)
             IN  [raised |-> "none",
                  lines |-> [lines EXCEPT ![i] =
                      ScanDirective(scan_bond, minimum, scan_step_number, step)],
                  minimum_dist |-> parsed, step_size |-> <<step>>]

\* update_scan_bond without the break: every line that passes the test of the
\* loop body is overwritten with the directive of the first one
update_scan_bond_RewritesEveryMatch(lines, scan_bond, lower_bound, upper_bound, scan_step_number, min0, step0) ==
    LET hits == {i \in 1..Len(lines) : IsScanLine(lines[i], scan_bond)}
        i == Min(hits)
        parsed == float(split(lines[i])[2])
        minimum == RatMul(parsed[1], lower_bound)
        maximum == RatMul(parsed[1], upper_bound)
    IN  IF hits = {}
        THEN [raised |-> "ValueError: coordinate not found", lines |-> lines,
              minimum_dist |-> min0, step_size |-> step0]
        ELSE IF parsed = <<>>
        THEN [raised |-> "ValueError: float", lines |-> lines,
              minimum_dist |-> min0, step_size |-> step0]
        ELSE IF scan_step_number = 0
        THEN [raised |-> "ZeroDivisionError", lines |-> lines,
              minimum_dist |-> <<minimum>>, step_size |-> step0]
        ELSE LET step == RatDivInt(RatSub(maximum, minimum), scan_step_number)
             IN  [raised |-> "none",
                  lines |-> [k \in DOMAIN lines |->
                      IF k \in hits
                      THEN ScanDirective(scan_bond, minimum, scan_step_number, step)
                      ELSE lines[k]],
                  minimum_dist |-> <<minimum>>, step_size |-> <<step>>]

\* The function on the lines of the deck. raised is "none" or the exception;
\* lines is what the deck file holds afterwards; minimum_dist and step_size are
\* the globals afterwards, given their values min0 and step0 before the call.
update_scan_bond(lines, scan_bond, lower_bound, upper_bound, scan_step_number, min0, step0) ==
    LET hits == {i \in 1..Len(lines) : IsScanLine(lines[i], scan_bond)}
    IN  IF hits = {}
        THEN [raised |-> "ValueError: coordinate not found", lines |-> lines,
              minimum_dist |-> min0, step_size |-> step0]
        ELSE
          LET i == Min(hits)
              parsed == float(split(lines[i])[2])
          IN  IF parsed = <<>>
              THEN [raised |-> "ValueError: float", lines |-> lines,
                    minimum_dist |-> min0, step_size |-> step0]
              ELSE
                LET equilibrium_dist == parsed[1]
                    minimum == RatMul(equilibrium_dist, lower_bound)
                    maximum == RatMul(equilibrium_dist, upper_bound)
                    scan_distance == RatSub(maximum, minimum)
                IN  IF scan_step_number = 0
                    THEN [raised |-> "ZeroDivisionError", lines |-> lines,
                          minimum_dist |-> <<minimum>>, step_size |-> step0]
                    ELSE
                      LET step == RatDivInt(scan_distance, scan_step_number)
                          new_line == ScanDirective(scan_bond, minimum,
                                                    scan_step_number, step)
                      IN  [raised |-> "none",
                           lines |-> [lines EXCEPT ![i] = new_line],
                           minimum_dist |-> <<minimum>>, step_size |-> <<step>>]

(***************************************************************************)
(* extract_energies                                                        *)
(***************************************************************************)
energy_label == "EUMP2"

\* hartree_to_eV = 27.211407953 = whole + nano / 10^9, kept in two parts that
\* fit a machine integer
hartree_to_eV == [whole |-> 27, nano |-> 211407953]

\* float(energy) * hartree_to_eV, as the exact sum whole + nano / 10^9
ToElectronVolt(hartree) ==
    [whole |-> RatMulInt(hartree, hartree_to_eV.whole),
     nano |-> RatMulInt(hartree, hartree_to_eV.nano)]

\* length of the run of characters of s from position q on that are in chars
RunLen(s, q, chars) ==
    IF q > Len(s) THEN 0
    ELSE Min({e \in q..(Len(s) + 1) : e = Len(s) + 1 \/ Ch(s, e) \notin chars}) - q

\* the class [-\d\.D]
EnergyClass == Digits \cup {"-", ".", "D"}

\* The match of  EUMP2\s*=\s*([-\d\.D]+[+-]\d+)  with the label at position p:
\* <<>> when there is none, else <<group 1>>. The class run is greedy and gives
\* characters back until a sign followed by a digit is found.
MatchAt(s, p) ==
    LET a == p + Len(energy_label)
        eq == a + RunLen(s, a, Whitespace)
        q == eq + 1 + RunLen(s, eq + 1, Whitespace)
        run == RunLen(s, q, EnergyClass)
        cuts == {k \in 1..run :
                    /\ q + k + 1 <= Len(s)
                    /\ Ch(s, q + k) \in {"+", "-"}
                    /\ IsDigit(Ch(s, q + k + 1))}
    IN  IF ~(p + Len(energy_label) - 1 <= Len(s)
             /\ SubSeq(s, p, p + Len(energy_label) - 1) = energy_label)
        THEN <<>>
        ELSE IF ~(eq <= Len(s) /\ Ch(s, eq) = "=") THEN <<>>
        ELSE IF cuts = {} THEN <<>>
        ELSE LET k == Max(cuts)
                 digits == RunLen(s, q + k + 1, Digits)
             IN  <<SubSeq(s, q, q + k + digits)>>

\* re.search: the match at the leftmost position that has one
energy_search(line) ==
    LET ps == {p \in 1..Len(line) : MatchAt(line, p) # <<>>}
    IN  IF ps = {} THEN <<>> ELSE MatchAt(line, Min(ps))

HasEnergyLabel(line) == contains(line, energy_label)

\* the energies one line contributes: none, or one value in eV
LineEnergies(line) ==
    IF ~HasEnergyLabel(line) THEN <<>>
    ELSE LET match == energy_search(line)
         IN  IF match = <<>> THEN <<>>
             ELSE LET energy == float(replace(match[1], "D", "E"))
                  IN  IF energy = <<>> THEN <<>>
                      ELSE <<ToElectronVolt(energy[1])>>

RECURSIVE extract_energies(_)
extract_energies(lines) ==
    IF lines = <<>> THEN <<>>
    ELSE LineEnergies(Head(lines)) \o extract_energies(Tail(lines))

(***************************************************************************)
(* write_energies_to_file                                                  *)
(***************************************************************************)
\* [minimum_dist + i * step_size for i in range(scan_step_number + 1)]
Distances(minimum, step, scan_step_number) ==
    [j \in 1..(IF scan_step_number + 1 > 0 THEN scan_step_number + 1 ELSE 0) |->
        RatAdd(minimum, RatMulInt(step, j - 1))]

\* zip(distances, energies)
zip(xs, ys) ==
    [j \in 1..(IF Len(xs) < Len(ys) THEN Len(xs) ELSE Len(ys)) |->
        [distance |-> xs[j], energy |-> ys[j]]]

\* The lines of the energy file: line j is the pair that the f-string
\* "{distance} {energy}" renders.
write_energies_to_file(energies, minimum, step, scan_step_number) ==
    zip(Distances(minimum, step, scan_step_number), energies)

\* the messages extract_energies prints: one per payload float() rejects
RECURSIVE EnergyMessages(_)
EnergyMessages(lines) ==
    IF lines = <<>> THEN <<>>
    ELSE LET line == Head(lines)
             match == IF HasEnergyLabel(line) THEN energy_search(line) ELSE <<>>
             energy == IF match = <<>> THEN "" ELSE replace(match[1], "D", "E")
         IN  (IF match # <<>> /\ float(energy) = <<>>
              THEN <<"Error converting energy: " \o energy>> ELSE <<>>)
                 \o EnergyMessages(Tail(lines))

(***************************************************************************)
(* extract_data_from_log                                                   *)
(***************************************************************************)
orientation_marker == "Standard orientation:"

periodic_table ==
    << "H", "He", "Li", "Be", "B", "C", "N", "O", "F", "Ne",
       "Na", "Mg", "Al", "Si", "P", "S", "Cl", "Ar", "K", "Ca",
       "Sc", "Ti", "V", "Cr", "Mn", "Fe", "Co", "Ni", "Cu", "Zn",
       "Ga", "Ge", "As", "Se", "Br", "Kr", "Rb", "Sr", "Y", "Zr",
       "Nb", "Mo", "Tc", "Ru", "Rh", "Pd", "Ag", "Cd", "In", "Sn",
       "Sb", "Te", "I", "Xe", "Cs", "Ba", "La", "Ce", "Pr", "Nd",
       "Pm", "Sm", "Eu", "Gd", "Tb", "Dy", "Ho", "Er", "Tm", "Yb",
       "Lu", "Hf", "Ta", "W", "Re", "Os", "Ir", "Pt", "Au", "Hg",
       "Tl", "Pb", "Bi", "Po", "At", "Rn", "Fr", "Ra", "Ac", "Th",
       "Pa", "U", "Np", "Pu", "Am", "Cm", "Bk", "Cf", "Es", "Fm",
       "Md", "No", "Lr", "Rf", "Db", "Sg", "Bh", "Hs", "Mt",
       "Ds", "Rg", "Cn", "Nh", "Fl", "Mc", "Lv", "Ts", "Og" >>

\* periodic_table.get(atomic_number, "X")
ElementOf(atomic_number) ==
    IF atomic_number \in DOMAIN periodic_table THEN periodic_table[atomic_number] ELSE "X"

\* int(s) of a token: <<>> stands for ValueError
int(s) ==
    IF Unsigned(s) # "" /\ AllDigits(Unsigned(s))
    THEN <<SignOf(s) * DigitsVal(Unsigned(s))>> ELSE <<>>

\* The while loop of one table from the 0-based index start_index on:
\* [raised, block_data]
RECURSIVE ReadTable(_, _)
ReadTable(lines, start_index) ==
    IF ~(start_index < Len(lines)
         /\ ~startswith(strip(lines[start_index + 1]), "-"))
    THEN [raised |-> FALSE, block_data |-> <<>>]
    ELSE LET parts == split(lines[start_index + 1])
             rest == ReadTable(lines, start_index + 1)
         IN  IF Len(parts) >= 6
             THEN IF int(parts[2]) = <<>>
                  THEN [raised |-> TRUE, block_data |-> <<>>]
                  ELSE [raised |-> rest.raised,
                        block_data |->
                            <<ElementOf(int(parts[2])[1]) \o " " \o parts[4] \o " "
                                \o parts[5] \o " " \o parts[6]>> \o rest.block_data]
             ELSE rest

\* BlockLines without the test "if block_data": a table without atom lines
\* puts a block of count 0 into the file
BlockLines_EmitsEmpty(block_data) ==
    <<str_int(Len(block_data)), "">> \o block_data

\* the lines one block puts into the trajectory file
BlockLines(block_data) ==
    IF block_data = <<>> THEN <<>>
    ELSE <<str_int(Len(block_data)), "">> \o block_data

\* the for loop over the lines from the 0-based index i on: [raised, lines]
RECURSIVE ScanTables(_, _)
ScanTables(lines, i) ==
    IF i >= Len(lines) THEN [raised |-> FALSE, lines |-> <<>>]
    ELSE IF ~contains(lines[i + 1], orientation_marker) THEN ScanTables(lines, i + 1)
    ELSE LET table == ReadTable(lines, i + 5)
             rest == ScanTables(lines, i + 1)
         IN  IF table.raised THEN [raised |-> TRUE, lines |-> <<>>]
             ELSE [raised |-> rest.raised,
                   lines |-> BlockLines(table.block_data) \o rest.lines]

\* [raised, lines]: raised when int() rejects an atomic number (the file is
\* then not written), else the lines of the trajectory file
extract_data_from_log(lines) == ScanTables(lines, 0)

(***************************************************************************)
(* State of a notebook run                                                 *)
(***************************************************************************)
VARIABLES
    pc,                \* the cell to run next; "done" after the last one
    raised,            \* "none", or the exception that stopped the run at pc
    files,             \* the file system: path -> lines
    stdout,            \* the messages printed so far
    invocations,       \* the engine runs so far, "opt" or "scan", in order
    scan_bond,         \* user input
    lower_bound,       \* user input
    upper_bound,       \* user input
    scan_step_number,  \* user input
    input_geometry,    \* global: the geometry block read from geom_file
    basisset,          \* global: the normalised basis-set block
    minimum_dist,      \* global: None or the minimum distance
    step_size          \* global: None or the step size

vars == <<pc, raised, files, stdout, invocations, scan_bond, lower_bound,
          upper_bound, scan_step_number, input_geometry, basisset,
          minimum_dist, step_size>>

user_input == <<scan_bond, lower_bound, upper_bound, scan_step_number>>

opt_gjf == "opt/" \o molecule_name \o ".gjf"
opt_log_file_path == "opt/" \o molecule_name \o ".log"
scan_file_path == "scan/" \o molecule_name \o ".gjf"
scan_log_file_path == "scan/" \o molecule_name \o ".log"
output_file_path == "traj_" \o molecule_name \o ".xyz"
energy_output_file_path == "energy_" \o molecule_name \o ".dat"

Exists(path) == path \in DOMAIN files

\* open(path, "w") and the writes that follow
Written(path, lines) == (path :> lines) @@ files

None == <<>>

Running(cell) == pc = cell /\ raised = "none"

\* the cell ends normally and the run goes on with the cell next
Goto(next) == pc' = next /\ raised' = "none"

\* the cell raises: the run stops in it
Raise(exception) == pc' = pc /\ raised' = exception

(***************************************************************************)
(* The cells, in notebook order                                            *)
(***************************************************************************)
CheckScanBondCell ==
    /\ Running("check_scan_bond")
    /\ IF PreRunAccepts(files[geom_file], scan_bond)
       THEN Goto("validate_parameters")
       ELSE Raise("ValueError: coordinate not found")
    /\ UNCHANGED <<files, stdout, invocations, user_input, input_geometry,
                   basisset, minimum_dist, step_size>>

\* the try/except of the cell prints the ValueError and goes on
ValidateParametersCell ==
    /\ Running("validate_parameters")
    /\ LET e == validate_parameters(lower_bound, upper_bound, scan_step_number)
       IN  stdout' = IF e = "ok" THEN stdout
                     ELSE Append(stdout, "Parameter validation error: " \o e)
    /\ Goto("compose_opt")
    /\ UNCHANGED <<files, invocations, user_input, input_geometry, basisset,
                   minimum_dist, step_size>>

ComposeOptCell ==
    /\ Running("compose_opt")
    /\ input_geometry' = read_geometry_block(files[geom_file])
    /\ basisset' = read_basis_set(files[basisset_file])
    /\ files' = Written(opt_gjf, opt_header \o input_geometry' \o basisset')
    /\ Goto("run_opt")
    /\ UNCHANGED <<stdout, invocations, user_input, minimum_dist, step_size>>

\* subprocess.run(..., check=True): the engine leaves a log of any content and
\* exits with status 0 or not; the launch script the cell writes and removes
\* around the call is not kept in files
RunEngine(kind, cell, next, log_path, logs) ==
    /\ Running(cell)
    /\ invocations' = Append(invocations, kind)
    /\ \E log \in logs, status_ok \in BOOLEAN :
          /\ files' = Written(log_path, log)
          /\ IF status_ok THEN Goto(next) ELSE Raise("CalledProcessError")
    /\ UNCHANGED <<stdout, user_input, input_geometry, basisset, minimum_dist,
                   step_size>>

\* the check as a cell that reports the failure and lets the run go on, the way
\* the parameter check does
CheckTermination_PrintOnly(cell, next, log_path, message, failure) ==
    /\ Running(cell)
    /\ stdout' = Append(stdout, IF TerminatedNormally(files[log_path])
                                THEN message ELSE failure)
    /\ Goto(next)
    /\ UNCHANGED <<files, invocations, user_input, input_geometry, basisset,
                   minimum_dist, step_size>>

CheckTermination(cell, next, log_path, message, failure) ==
    /\ Running(cell)
    /\ IF TerminatedNormally(files[log_path])
       THEN stdout' = Append(stdout, message) /\ Goto(next)
       ELSE stdout' = stdout /\ Raise(failure)
    /\ UNCHANGED <<files, invocations, user_input, input_geometry, basisset,
                   minimum_dist, step_size>>

CheckOptCell ==
    CheckTermination("check_opt", "compose_scan", opt_log_file_path,
                     "Geometry optimization completed successfully.",
                     "RuntimeError: optimization")

ComposeScanCell ==
    /\ Running("compose_scan")
    /\ IF ~HasStructure(files[opt_log_file_path])
       THEN files' = files /\ Raise("RuntimeError: structure not found")
       ELSE IF input_geometry = <<>>
       THEN files' = files /\ Raise("IndexError")
       ELSE /\ files' = Written(scan_file_path,
                  scan_header \o <<input_geometry[1]>>
                      \o extract_optimized_structure(files[opt_log_file_path])
                      \o basisset)
            /\ Goto("update_scan_bond")
    /\ UNCHANGED <<stdout, invocations, user_input, input_geometry, basisset,
                   minimum_dist, step_size>>

\* the cell sets both globals to None, defines the function and calls it
UpdateScanBondCell ==
    /\ Running("update_scan_bond")
    /\ LET r == update_scan_bond(files[scan_file_path], scan_bond, lower_bound,
                                 upper_bound, scan_step_number, None, None)
       IN  /\ minimum_dist' = r.minimum_dist
           /\ step_size' = r.step_size
           /\ IF r.raised = "none"
              THEN files' = Written(scan_file_path, r.lines) /\ Goto("run_scan")
              ELSE files' = files /\ Raise(r.raised)
    /\ UNCHANGED <<stdout, invocations, user_input, input_geometry, basisset>>

CheckScanCell ==
    CheckTermination("check_scan", "extract_data", scan_log_file_path,
                     "Bond scan completed successfully.", "RuntimeError: scan")

ExtractDataCell ==
    /\ Running("extract_data")
    /\ LET r == extract_data_from_log(files[scan_log_file_path])
       IN  IF r.raised
           THEN files' = files /\ Raise("ValueError: int")
           ELSE files' = Written(output_file_path, r.lines) /\ Goto("extract_energies")
    /\ UNCHANGED <<stdout, invocations, user_input, input_geometry, basisset,
                   minimum_dist, step_size>>

\* None + i * None raises TypeError as soon as the range holds an i
ExtractEnergiesCell ==
    /\ Running("extract_energies")
    /\ stdout' = stdout \o EnergyMessages(files[scan_log_file_path])
    /\ IF (minimum_dist = None \/ step_size = None) /\ scan_step_number + 1 > 0
       THEN files' = files /\ Raise("TypeError")
       ELSE /\ files' = Written(energy_output_file_path,
                  IF scan_step_number + 1 > 0
                  THEN write_energies_to_file(
                           extract_energies(files[scan_log_file_path]),
                           minimum_dist[1], step_size[1], scan_step_number)
                  ELSE <<>>)
            /\ Goto("done")
    /\ UNCHANGED <<invocations, user_input, input_geometry, basisset,
                   minimum_dist, step_size>>

(***************************************************************************)
(* Inputs of a run of the whole notebook                                   *)
(***************************************************************************)
\* title, two blank lines, Z-matrix with the variable B4
ZMatrixFile == <<"h3f", "", "", "0 1", " H", " H 1 B4", "", "B4 1.4">>
\* the same molecule with the bond named B1
OtherBondFile == <<"h3f", "", "", "0 1", " H", " H 1 B1", "", "B1 1.4">>
\* a B4 line after the two blank lines that end the block
TrailerBondFile == <<"h3f", "", "", "0 1", " H", "", "", "B4 1.4">>
\* shorter than the skeleton: one blank line after the title
ShortFile == <<"h3f", "", "B4 1.4">>

GeomFiles == {ZMatrixFile, OtherBondFile, TrailerBondFile, ShortFile}

BasisFiles == {<<"", "H 0", "S 1 1.00", "****", "">>}

\* multiples of the equilibrium distance: the defaults, and the two swapped
BoundPairs == {<<Rat(7, 10), Rat(7, 4)>>, <<Rat(7, 4), Rat(7, 10)>>}

MaxSteps == 2
StepNumbers == 0..MaxSteps

OptLogLines ==
    { " Final structure in terms of initial Z-matrix:",
      "       Variables:",
      " B4=1.4",
      " B4=1.00000004",
      " Normal termination of Gaussian 16" }
MaxOptLogLines == 4
OptLogs == SeqsUpTo(OptLogLines, MaxOptLogLines)

ScanLogLines ==
    { " E2 = -0.1D+00 EUMP2 = -0.1D+01",
      " Normal termination of Gaussian 16" }
MaxScanLogLines == 3
ScanLogs == SeqsUpTo(ScanLogLines, MaxScanLogLines)

RunOptCell == RunEngine("opt", "run_opt", "check_opt", opt_log_file_path, OptLogs)

RunScanCell == RunEngine("scan", "run_scan", "check_scan", scan_log_file_path, ScanLogs)

(***************************************************************************)
(* The run of the whole notebook                                           *)
(***************************************************************************)
Init ==
    /\ pc = "check_scan_bond"
    /\ raised = "none"
    /\ \E g \in GeomFiles, b \in BasisFiles :
          files = (geom_file :> g) @@ (basisset_file :> b)
    /\ stdout = <<>>
    /\ invocations = <<>>
    /\ scan_bond = "B4"
    /\ \E bp \in BoundPairs : lower_bound = bp[1] /\ upper_bound = bp[2]
    /\ scan_step_number \in StepNumbers
    /\ input_geometry = <<>>
    /\ basisset = <<>>
    /\ minimum_dist = None
    /\ step_size = None

Next ==
    \/ CheckScanBondCell
    \/ ValidateParametersCell
    \/ ComposeOptCell
    \/ RunOptCell
    \/ CheckOptCell
    \/ ComposeScanCell
    \/ UpdateScanBondCell
    \/ RunScanCell
    \/ CheckScanCell
    \/ ExtractDataCell
    \/ ExtractEnergiesCell

Spec == Init /\ [][Next]_vars

(***************************************************************************)
(* Properties of the run of the whole notebook                             *)
(***************************************************************************)
Range(seq) == {seq[i] : i \in DOMAIN seq}

OptLogFailed ==
    /\ Exists(opt_log_file_path)
    /\ \/ ~TerminatedNormally(files[opt_log_file_path])
       \/ ~HasStructure(files[opt_log_file_path])

ScanLogFailed ==
    /\ Exists(scan_log_file_path)
    /\ ~TerminatedNormally(files[scan_log_file_path])

\* C1: a post-run failure is terminal. While the optimization log is judged
\* failed or lacks the final-structure marker, no scan deck exists, the run has
\* not reached update_scan_bond and the engine has not been invoked for the
\* scan; while the scan log is judged failed, neither the trajectory file nor
\* the energy file exists.
C1_PostRunFailureIsTerminal ==
    /\ OptLogFailed =>
          /\ ~Exists(scan_file_path)
          /\ pc \in {"run_opt", "check_opt", "compose_scan"}
          /\ minimum_dist = None /\ step_size = None
          /\ "scan" \notin Range(invocations)
    /\ ScanLogFailed =>
          /\ ~Exists(output_file_path)
          /\ ~Exists(energy_output_file_path)

\* C1 witness: both engines ran, the optimization passed both checks and the
\* run stopped in the termination check of the scan.
C1_Witness ==
    /\ raised = "RuntimeError: scan"
    /\ invocations = <<"opt", "scan">>
    /\ ScanLogFailed

\* C2 (as claimed): a coordinate-not-found failure is never discovered after an
\* engine invocation: once the pre-run check has accepted the geometry file
\* and the engine has run, update_scan_bond does not raise coordinate-not-found.
C2_NotFoundOnlyBeforeEngine ==
    (PreRunAccepts(files[geom_file], scan_bond) /\ invocations # <<>>)
        => raised # "ValueError: coordinate not found"

\* C3 (as claimed): a geometry file whose block reads as empty never gets an
\* optimization deck written nor an engine invoked.
C3_EmptyBlockStopsBeforeDeck ==
    read_geometry_block(files[geom_file]) = <<>>
        => ~Exists(opt_gjf) /\ invocations = <<>>

\* the tokens of the scan directive in the scan deck: the first line that
\* starts with the coordinate name and has four tokens
DirectiveParts ==
    LET deck == files[scan_file_path]
        hits == {i \in 1..Len(deck) :
                    startswith(strip(deck[i]), scan_bond) /\ Len(split(deck[i])) = 4}
    IN  IF hits = {} THEN <<>> ELSE split(deck[Min(hits)])

\* the energy file labels row j with first + (j - 1) * step
LabelledFrom(first, step) ==
    \A j \in DOMAIN files[energy_output_file_path] :
        files[energy_output_file_path][j].distance
            = RatAdd(first, RatMulInt(step, j - 1))

\* C4 (as claimed): whenever the energy file is written, the minimum distance
\* and the step size that label it are the two numbers that stand in the scan
\* directive of the deck.
C4_DirectiveEqualsLabelling ==
    Exists(energy_output_file_path) =>
        /\ DirectiveParts # <<>>
        /\ float(DirectiveParts[2]) = minimum_dist
        /\ float(DirectiveParts[4]) = step_size
        /\ LabelledFrom(float(DirectiveParts[2])[1], float(DirectiveParts[4])[1])

\* C4 (amended): whenever the energy file is written, it is labelled from the
\* shared pair; the step size in the directive is the step size of the pair,
\* and the minimum in the directive is the minimum of the pair rounded to 8
\* decimal places.
C4_DirectiveIsRoundedLabelling ==
    Exists(energy_output_file_path) =>
        /\ DirectiveParts # <<>>
        /\ minimum_dist # None /\ step_size # None
        /\ DirectiveParts[2] = FormatFixed(minimum_dist[1], 8)
        /\ float(DirectiveParts[4]) = step_size
        /\ DirectiveParts[3] = str_int(scan_step_number)
        /\ LabelledFrom(minimum_dist[1], step_size[1])

\* C4 witness: an energy file with two rows at least, after a directive whose
\* minimum was rounded.
C4_Witness ==
    /\ Exists(energy_output_file_path)
    /\ Len(files[energy_output_file_path]) >= 2
    /\ float(DirectiveParts[2]) # minimum_dist

\* C13 (as claimed): when validate_parameters rejects the scan parameters the
\* run halts there: no deck is written and the engine is never invoked.
C13_RejectionHalts ==
    validate_parameters(lower_bound, upper_bound, scan_step_number) # "ok" =>
        /\ ~Exists(opt_gjf)
        /\ ~Exists(scan_file_path)
        /\ invocations = <<>>

(***************************************************************************)
(* Single cells, entered with the state their predecessors leave           *)
(***************************************************************************)
DefaultBasis == <<"", "H 0", "S 1 1.00", "****", "">>

\* the state on entry to a cell: fs are the files on disk, runs the engine
\* runs so far, n the step number, pair the shared <<minimum_dist, step_size>>
EnterCell(cell, fs, runs, n, pair) ==
    /\ pc = cell
    /\ raised = "none"
    /\ files = fs
    /\ stdout = <<>>
    /\ invocations = runs
    /\ scan_bond = "B4"
    /\ lower_bound = Rat(7, 10)
    /\ upper_bound = Rat(7, 4)
    /\ scan_step_number = n
    /\ input_geometry =
          (IF cell = "compose_opt" THEN <<>> ELSE read_geometry_block(ZMatrixFile))
    /\ basisset = (IF cell = "compose_opt" THEN <<>> ELSE read_basis_set(DefaultBasis))
    /\ minimum_dist = pair[1]
    /\ step_size = pair[2]

(***************************************************************************)
(* read_geometry_block on every geometry file                              *)
(***************************************************************************)
GeometryLines == {"", "0 1", " H"}
MaxGeomLines == 8

InitGeometry ==
    \E g \in SeqsUpTo(GeometryLines, MaxGeomLines) :
        EnterCell("compose_opt", (geom_file :> g) @@ (basisset_file :> DefaultBasis),
                  <<>>, 1, <<None, None>>)

SpecGeometry == InitGeometry /\ [][ComposeOptCell]_vars

\* the number of blank lines lines starts with
RECURSIVE LeadingBlanks(_)
LeadingBlanks(lines) ==
    IF lines # <<>> /\ IsBlank(Head(lines)) THEN 1 + LeadingBlanks(Tail(lines)) ELSE 0

\* the layout: leading blank lines, a title line, two blank lines, then the
\* block, which starts with a line that is not blank
LayoutStart(lines) == LeadingBlanks(lines) + 4
HasLayout(lines) ==
    LET k == LeadingBlanks(lines)
    IN  /\ Len(lines) >= k + 3
        /\ IsBlank(lines[k + 2]) /\ IsBlank(lines[k + 3])
        /\ Len(lines) >= k + 4 => ~IsBlank(lines[k + 4])

\* the lines from position first up to the first two consecutive blank lines
\* or the end of the file, without the blank lines at the end
BlockByLayout(lines) ==
    LET first == LayoutStart(lines)
        ends == {i \in first..Len(lines) :
                    i < Len(lines) /\ IsBlank(lines[i]) /\ IsBlank(lines[i + 1])}
        last == IF ends = {} THEN Len(lines) ELSE Min(ends) - 1
    IN  StripTrailingEmpty(SubSeq(lines, first, last))

\* C9 (as claimed): for a file of the layout, read_geometry_block returns the
\* block up to the first two consecutive blank lines or the end of the file,
\* trailing blank lines stripped, whatever single blank lines the block has.
C9_BlockEndsAtTwoConsecutiveBlanks ==
    (pc = "run_opt" /\ HasLayout(files[geom_file]))
        => input_geometry = BlockByLayout(files[geom_file])

\* the lines from position first up to the second blank line after it,
\* consecutive with the first or not, or the end of the file, without the blank
\* lines at the end
BlockToSecondBlank(lines) ==
    LET first == LayoutStart(lines)
        blanks == {i \in first..Len(lines) : IsBlank(lines[i])}
        ends == {i \in blanks : \E h \in blanks : h < i}
        last == IF ends = {} THEN Len(lines) ELSE Min(ends) - 1
    IN  StripTrailingEmpty(SubSeq(lines, first, last))

\* C9 (amended): for a file of the layout, read_geometry_block returns the
\* block up to the second blank line of the block, whether or not the two
\* blank lines are consecutive, or up to the end of the file, trailing blank
\* lines stripped: one single blank line inside the block does not end it, a
\* second one does.
C9_BlockEndsAtSecondBlank ==
    (pc = "run_opt" /\ HasLayout(files[geom_file]))
        => input_geometry = BlockToSecondBlank(files[geom_file])

\* C9 witness: a file of the layout whose block has a single blank line
\* inside, lines after it and two consecutive blank lines at the end.
C9_Witness ==
    /\ pc = "run_opt"
    /\ HasLayout(files[geom_file])
    /\ Len(input_geometry) >= 3
    /\ \E i \in 2..(Len(input_geometry) - 1) : IsBlank(input_geometry[i])
    /\ Len(files[geom_file]) >= LayoutStart(files[geom_file]) + Len(input_geometry) + 1

(***************************************************************************)
(* read_basis_set on every basis-set file                                  *)
(***************************************************************************)
BasisLines == {"", " ", "H 0", "****"}
MaxBasisLines == 4

InitBasis ==
    \E b \in SeqsUpTo(BasisLines, MaxBasisLines) :
        EnterCell("compose_opt", (geom_file :> ZMatrixFile) @@ (basisset_file :> b),
                  <<>>, 1, <<None, None>>)

SpecBasis == InitBasis /\ [][ComposeOptCell]_vars

OneBlankAtEachEnd(block) ==
    /\ Len(block) >= 2
    /\ IsBlank(block[1]) /\ ~IsBlank(block[2])
    /\ IsBlank(block[Len(block)]) /\ ~IsBlank(block[Len(block) - 1])

\* C10 (as claimed): for every basis-set file, the output of read_basis_set
\* has a blank first line and a blank last line and no blank line next to
\* either on the inside.
C10_OneBlankAtEachEnd ==
    pc = "run_opt" => OneBlankAtEachEnd(basisset)

HasContent(lines) == \E i \in DOMAIN lines : ~IsBlank(lines[i])

\* C10 (amended): for a basis-set file with a line that is not blank, the
\* output has a blank first and last line and no blank line next to either on
\* the inside; for an empty file or a file of blank lines it is two blank lines.
C10_OneBlankAtEachEndOfContent ==
    pc = "run_opt" =>
        IF HasContent(files[basisset_file])
        THEN OneBlankAtEachEnd(basisset)
        ELSE basisset = <<"", "">>

\* C10 witness: a file padded with blank lines at both ends has been read.
C10_Witness ==
    /\ pc = "run_opt"
    /\ LET b == files[basisset_file]
       IN  Len(b) >= 3 /\ IsBlank(b[1]) /\ IsBlank(b[Len(b)]) /\ HasContent(b)

(***************************************************************************)
(* The termination check on every engine log                               *)
(***************************************************************************)
TerminationLines ==
    {"", " ", " Normal termination of Gaussian 16", " Error termination via Lnk1e"}
MaxLogLines == 4

InitTermination ==
    \E log \in SeqsUpTo(TerminationLines, MaxLogLines) :
        \/ EnterCell("check_opt", (opt_log_file_path :> log), <<"opt">>, 1,
                     <<None, None>>)
        \/ EnterCell("check_scan", (scan_log_file_path :> log), <<"opt", "scan">>, 1,
                     <<None, None>>)

NextTermination == CheckOptCell \/ CheckScanCell

SpecTermination == InitTermination /\ [][NextTermination]_vars

\* the log the check of this run reads
CheckedLog ==
    IF Exists(opt_log_file_path) THEN files[opt_log_file_path]
    ELSE files[scan_log_file_path]

CheckPassed == pc \in {"compose_scan", "extract_data"}
CheckFailed == raised \in {"RuntimeError: optimization", "RuntimeError: scan"}

LastNonEmptyLineHasMarker(log) ==
    LET filled == {i \in DOMAIN log : ~IsBlank(log[i])}
    IN  filled # {} /\ startswith(strip(log[Max(filled)]), "Normal termination")

LastLineHasMarker(log) ==
    Len(log) > 0 /\ startswith(strip(log[Len(log)]), "Normal termination")

DeckLines == {" B4   1.4", " B40   1.5", " B4   1.4   0", " B4   x", " H   1   B4"}
MaxDeckLines == 3

\* a scan deck as the cell before composes it: header, charge line, the
\* structure taken from the log, basis set
ScanDeck(structure) ==
    scan_header \o <<"0 1">> \o structure \o read_basis_set(DefaultBasis)

InitEdit ==
    \E structure \in SeqsUpTo(DeckLines, MaxDeckLines), n \in 1..MaxSteps :
        EnterCell("update_scan_bond",
                  scan_file_path :> ScanDeck(structure),
                  <<"opt">>, n, <<None, None>>)

SpecEdit == InitEdit /\ [][UpdateScanBondCell]_vars

\* the lines the claim lets update_scan_bond select
NamesCoordinate(line, name) ==
    startswith(strip(line), name \o " ") /\ Len(split(line)) = 2

\* C7 (as claimed): the line update_scan_bond rewrites is the first line whose
\* stripped text starts with the coordinate name followed by a space and that
\* has exactly one further token; the line of a coordinate whose name only
\* starts with the scan coordinate's name is never rewritten.
C7_RewritesTheNamedCoordinate ==
    [][(pc = "update_scan_bond" /\ pc' = "run_scan") =>
        LET old == files[scan_file_path]
            new == files'[scan_file_path]
            named == {i \in 1..Len(old) : NamesCoordinate(old[i], scan_bond)}
        IN  /\ named # {}
            /\ \A i \in 1..Len(old) : new[i] # old[i] => i = Min(named)]_vars

\* the positions at which the scan deck after the step differs from the
\* scan deck before it
ChangedLines ==
    {i \in DOMAIN files[scan_file_path] \cap DOMAIN files'[scan_file_path] :
        files'[scan_file_path][i] # files[scan_file_path][i]}

\* C12: update_scan_bond changes at most one line of the scan deck: when it
\* succeeds the deck keeps its number of lines and differs from the composed
\* deck in exactly one line, the line the loop matched, and no other file
\* changes; when it fails with coordinate-not-found the files are unchanged
\* and the shared pair (minimum_dist, step_size) keeps the value it had.
C12_ChangesOneLine ==
    [][pc = "update_scan_bond" =>
        /\ DOMAIN files' = DOMAIN files
        /\ \A f \in DOMAIN files : f # scan_file_path => files'[f] = files[f]
        /\ Len(files'[scan_file_path]) = Len(files[scan_file_path])
        /\ Cardinality(ChangedLines) <= 1
        /\ pc' = "run_scan" =>
              /\ Cardinality(ChangedLines) = 1
              /\ \A i \in ChangedLines : IsScanLine(files[scan_file_path][i], scan_bond)
        /\ raised' = "ValueError: coordinate not found" =>
              /\ files' = files
              /\ minimum_dist' = minimum_dist
              /\ step_size' = step_size]_vars

\* the cell has rewritten one line into a directive of four fields and left a
\* later line of the same coordinate as it was
C12_Witness ==
    /\ pc = "run_scan"
    /\ \E i, j \in DOMAIN files[scan_file_path] :
          /\ i < j
          /\ Len(split(files[scan_file_path][i])) = 4
          /\ startswith(strip(files[scan_file_path][i]), scan_bond \o " ")
          /\ IsScanLine(files[scan_file_path][j], scan_bond)

(***************************************************************************)
(* extract_energies and write_energies_to_file on every scan log           *)
(***************************************************************************)
EnergyLines ==
    { " E2 = -0.1D+00 EUMP2 = -0.1D+01",
      " E2 = -0.1D+00 EUMP2 = -0.2D+01",
      " E2 = -0.1D+00 EUMP2 = ************",
      " E2 = -0.1D+00 EUMP2 = -0.1.2D+01",
      " SCF Done" }
MaxEnergyLogLines == 3

\* the shared pair update_scan_bond leaves for an equilibrium distance of 1.4
PairFor(n) ==
    LET r == update_scan_bond(<<" B4   1.4">>, "B4", Rat(7, 10), Rat(7, 4), n, None, None)
    IN  <<r.minimum_dist, r.step_size>>

InitEnergy ==
    \E body \in SeqsUpTo(EnergyLines, MaxEnergyLogLines), n \in 1..MaxSteps :
        EnterCell("extract_energies",
                  scan_log_file_path :> (body \o <<" Normal termination of Gaussian 16">>),
                  <<"opt", "scan">>, n, PairFor(n))

SpecEnergy == InitEnergy /\ [][ExtractEnergiesCell]_vars

\* C5 (as claimed): the distance column of the energy file has exactly
\* scan_step_number + 1 entries, the i-th being minimum + i * step_size,
\* however many energies the log holds.
C5_DistanceColumnIsComplete ==
    Exists(energy_output_file_path) =>
        /\ Len(files[energy_output_file_path]) = scan_step_number + 1
        /\ LabelledFrom(minimum_dist[1], step_size[1])

\* the lines of the log that contain the energy label, in log order
LabelLines == SelectSeq(files[scan_log_file_path], HasEnergyLabel)

\* the 0-based positions, among the label lines, of those that yield an energy
ParsedSteps == {k \in 0..(Len(LabelLines) - 1) : LineEnergies(LabelLines[k + 1]) # <<>>}

\* the j-th smallest element of the set S of numbers
NthOf(S, j) == CHOOSE x \in S : Cardinality({y \in S : y < x}) = j - 1

\* C6 (as claimed): every energy written stands next to the distance of its
\* own scan step: the energy of the k-th label line of the log (k from 0) is
\* written next to minimum + k * step_size, also after a label line that did
\* not parse.
C6_EnergyKeepsItsStep ==
    Exists(energy_output_file_path) =>
        \A j \in DOMAIN files[energy_output_file_path] :
            LET k == NthOf(ParsedSteps, j)
                row == files[energy_output_file_path][j]
            IN  /\ row.energy = LineEnergies(LabelLines[k + 1])[1]
                /\ row.distance = RatAdd(minimum_dist[1], RatMulInt(step_size[1], k))

(***************************************************************************)
(* extract_data_from_log on every scan log                                 *)
(***************************************************************************)
\* the four lines between the marker line and the first line of a table
OrientationHeader ==
    << " ------------------------",
       " Center Atomic Atomic Coordinates",
       " Number Number Type X Y Z",
       " ------------------------" >>

\* lines of the log below the header: an atom, a line of fewer than six
\* fields, an atom whose atomic number is not a number, the separator
TableLines ==
    { " 1 9 0 0.0 0.0 0.1",
      " Rotational constants",
      " 2 ** 0 0.0 0.0 0.9",
      " ------------------------" }
MaxTableLines == 3

OrientationTable(body) ==
    <<"     " \o orientation_marker>> \o OrientationHeader \o body

\* a scan log of two orientation tables, each followed by anything
InitTrajectory ==
    \E first \in SeqsUpTo(TableLines, MaxTableLines),
       second \in SeqsUpTo(TableLines, MaxTableLines) :
        EnterCell("extract_data",
                  scan_log_file_path :> (OrientationTable(first) \o OrientationTable(second)),
                  <<"opt", "scan">>, 1, PairFor(1))

SpecTrajectory == InitTrajectory /\ [][ExtractDataCell]_vars

\* the 1-based positions of the lines of the log that hold the marker
MarkerLines ==
    {i \in DOMAIN files[scan_log_file_path] :
        contains(files[scan_log_file_path][i], orientation_marker)}

\* the position of the line that ends the table of the marker at line i: the
\* first separator line after the four header lines, or the end of the log
TableEnd(i) ==
    LET log == files[scan_log_file_path]
    IN  Min({j \in (i + 5)..Len(log) : startswith(strip(log[j]), "-")}
            \cup {Max({Len(log), i + 4}) + 1})

\* the data lines of the table of the marker at line i
DataLines(i) == (i + 5)..(TableEnd(i) - 1)

\* the data lines that hold six fields or more
AtomLines(i) ==
    {j \in DataLines(i) : Len(split(files[scan_log_file_path][j])) >= 6}

\* the positions in the trajectory file of the count lines: the lines before
\* a blank line
CountLines ==
    LET out == files[output_file_path]
    IN  {k \in 1..(Len(out) - 1) : out[k + 1] = ""}

\* the trajectory file holds, for the tables at the lines of the set tables
\* and in their order, one block each: the count line of rows(i), a blank
\* line and as many further lines
BlocksOf(tables, rows(_)) ==
    LET out == files[output_file_path]
    IN  /\ Cardinality(CountLines) = Cardinality(tables)
        /\ \A m \in 1..Cardinality(tables) :
              LET k == NthOf(CountLines, m)
                  next == IF m = Cardinality(tables) THEN Len(out) + 1
                          ELSE NthOf(CountLines, m + 1)
                  n == Cardinality(rows(NthOf(tables, m)))
              IN  /\ out[k] = str_int(n)
                  /\ next - k = n + 2
        /\ (tables = {}) => out = <<>>

\* C11 (as claimed): the trajectory file holds exactly one block per line of
\* the log with the marker, in log order, and each block is a count line
\* equal to the number of data lines of its table, a blank line and one line
\* per data line.
C11_OneBlockPerMarker ==
    Exists(output_file_path) => BlocksOf(MarkerLines, DataLines)

\* the line extract_data_from_log writes for the data line j of the log
AtomLine(j) ==
    LET parts == split(files[scan_log_file_path][j])
    IN  ElementOf(int(parts[2])[1]) \o " " \o parts[4] \o " " \o parts[5] \o " " \o parts[6]

\* the tables that hold at least one data line of six fields or more
TablesWithAtoms == {i \in MarkerLines : AtomLines(i) # {}}

\* C11 (amended): the trajectory file holds exactly one block per marker line
\* whose table has a data line of six fields or more, in log order; each
\* block is a count line equal to the number of such data lines, a blank line
\* and one "symbol x y z" line per such data line, in table order; a table
\* without such a line gives no block, and when the atomic number of such a
\* line is not an integer the cell raises and writes no file.
C11_OneBlockPerTableWithAtoms ==
    /\ Exists(output_file_path) =>
          /\ BlocksOf(TablesWithAtoms, AtomLines)
          /\ \A m \in 1..Cardinality(TablesWithAtoms) :
                LET i == NthOf(TablesWithAtoms, m)
                    k == NthOf(CountLines, m)
                IN  \A a \in 1..Cardinality(AtomLines(i)) :
                        files[output_file_path][k + 1 + a] = AtomLine(NthOf(AtomLines(i), a))
    /\ pc # "extract_data" =>
          IF \E i \in MarkerLines : \E j \in AtomLines(i) :
                 int(split(files[scan_log_file_path][j])[2]) = <<>>
          THEN raised # "none" /\ ~Exists(output_file_path)
          ELSE raised = "none" /\ Exists(output_file_path)

\* two tables of three atoms each give two blocks that begin with the line 3,
\* after a log whose tables also hold lines that are not atoms
C11_Witness ==
    /\ Exists(output_file_path)
    /\ Cardinality(CountLines) = 2
    /\ \A k \in CountLines : files[output_file_path][k] = "3"
    /\ Len(files[output_file_path]) = 10

====
